---- MODULE Spec2Model ----
(***************************************************************************)
(* The TCP benchmarking harness of the repository: tcp/server.c (one       *)
(* connection per server process), tcp/client.c (single-threaded client)   *)
(* and tcp/client/client.c (multi-threaded load driver).                   *)
(*                                                                         *)
(* Every connection c has a client end, a server process of its own and    *)
(* two byte streams.  A blocking system call is one step; its result is    *)
(* drawn from the results the call can have.                               *)
(***************************************************************************)
EXTENDS Integers, Sequences, FiniteSets, Bags, TLC

(* ------------------------- program constants --------------------------- *)
PAGE_SIZE == 4096
MAX_FILE_SIZE == 1048576
SERVER_MIN_FILE_SIZE == 1024
CLIENT_MIN_FILE_SIZE == 8
CLIENT_MAX_FILE_SIZE == 1048576
SERVER_ROUNDS == 10
test_rounds == 1000
ACK_NUMBER == 6
ACK_BYTES == 4
HEADER_BYTES == 8
EXIT_MINUS_ONE == 255

(* ------------------------------ bounds --------------------------------- *)
MaxThreads == 2
MaxRequests == 3
MaxIrregular == 1
MaxRawSends == 2

Conns == 0 .. (MaxThreads - 1)

\* free space of a connection's send queue, in bytes
SockBuf == 2 * PAGE_SIZE

\* lengths a client is started with
FileSizes == {7, 8, 1023, 1024, 5000, 1048577}
\* lengths used when several workers run at once
SmallFileSizes == {8, 1024}
\* values an uninitialised or partly read long can hold
GarbageSizes == {0, 1500}
\* values an uninitialised byte can hold
UninitBytes == {0, 6}
\* header values an arbitrary peer can declare
RawHeaders == {7, 1024, 1048576, 1048577}
\* sizes of the writes of an arbitrary peer
RawSends == {1000, 1024, 2048}

VARIABLES
    \* environment
    faults,               \* system calls that have failed so far
    partials,             \* short reads and writes so far
    irregular,            \* failed calls and short transfers a run may have
    readings,             \* the times clock_gettime may return in the run
    \* client program
    variant,              \* "st": tcp/client.c, "mt": tcp/client/client.c, "raw": any peer
    file_size,            \* the client's file_size
    num_threads,
    total_requests,
    mpc,                  \* position of the client's main thread
    mi,                   \* loop index i of main
    cstatus,              \* exit status of the client, once mpc = "exited"
    created,              \* threads pthread_create has started
    joined,               \* threads pthread_join has returned for
    aggregated,           \* main has read the latency array
    stats,                \* what main has summed, handed to GetStatistics and printed
    bufState,             \* payload buffer: "none", "alloc", "freed"
    bufFrees,             \* calls of free(buffer)
    latencies,            \* bag of <<slot, thread>>: the writes to the latency array
    csvFile,              \* lines of the output file
    cli,                  \* client end of each connection
    chan,                 \* byte streams of each connection
    srv                   \* server process of each connection

\* cli[c]:  connOK            connect() succeeded
\*          connRet           what connect_to_server returned: -1 or a descriptor
\*          sock              "none", "open", "closed"
\*          closes            calls of close on the socket
\*          pc                position of the thread that runs the rounds
\*          i                 round index
\*          total_bytes_sent
\*          roundsOK          rounds recorded as complete
\*          hdrSends          header send calls
\*          start, stop       the timespecs of the round
\*          latency           the local latency, in microseconds: num / den
\* chan[c]: hdr               header bytes in flight to the server
\*          pay               payload bytes in flight to the server
\*          hdrVal            the value the header bytes carry
\*          s2c               bytes in flight to the client
\* srv[c]:  pc, status        position, and exit status once pc = "exited"
\*          lsock, lCloses    listening socket and the calls of close on it
\*          sock, closes      accepted socket and the calls of close on it
\*          hdrRead           the value the header read returned
\*          hdrWhole          the header read returned the bytes of a whole header
\*          file_size, i, total_bytes_received   locals of receive_file
\*          payloadRead       payload bytes read on the connection
\*          lastRead          the last payload read: "none", "data", "eof", "error"
\*          acksSent          acknowledgments sent
\*          ackTotal          total_bytes_received at the last acknowledgment
\*          ret               what receive_file returned (1: it has not returned)
\*          ackAt             payloadRead at each acknowledgment
\*          buf               chunk buffer: "none", "alloc", "freed"
\*          log               messages printed

envVars == <<faults, partials>>
cfgVars == <<irregular, readings, variant, file_size, num_threads, total_requests>>
mainVars == <<mpc, mi, cstatus, created, joined, aggregated, stats, bufState, bufFrees,
              latencies, csvFile>>
vars == <<envVars, cfgVars, mainVars, cli, chan, srv>>

Min(a, b) == IF a < b THEN a ELSE b

(* ------------------------- byte order -------------------------------- *)
\* htonl: the four bytes of a 32-bit number, most significant first
htonl(x) == << (x \div 16777216) % 256, (x \div 65536) % 256, (x \div 256) % 256, x % 256 >>
\* ntohl: the number four bytes in network order stand for
ntohl(b) == ((b[1] * 256 + b[2]) * 256 + b[3]) * 256 + b[4]

(* ------------------------- environment -------------------------------- *)
\* a call may still fail, or transfer fewer bytes than it could
CanFail == faults + partials < irregular
CanPartial == faults + partials < irregular
\* f more failed calls and p more short transfers
Env(f, p) == faults' = faults + f /\ partials' = partials + p

When(cond, S) == IF cond THEN S ELSE {}

\* short results of a call that could transfer up to n bytes
ShortOf(n) == {k \in {1, n - 1} : 0 < k /\ k < n}

PeerClosedC(c) == cli[c].sock = "closed" \/ mpc = "exited"
PeerClosedS(c) == srv[c].pc = "exited"

\* results of a call that transfers up to want of the avail bytes at hand
Transfers(avail, want) ==
    {Min(avail, want)} \cup (IF CanPartial THEN ShortOf(Min(avail, want)) ELSE {})
IsShort(n, avail, want) == IF n < Min(avail, want) THEN 1 ELSE 0

(* ------------------------- initial state ------------------------------ *)
\* the runs that are followed: both clients with every length of FileSizes on
\* one connection; two workers with the lengths of SmallFileSizes; more than
\* two workers only with fewer requests than workers, so that
\* requests_per_thread is 0; and an arbitrary peer
Configs ==
    {[v |-> "st", L |-> l, T |-> 1, R |-> 0] : l \in FileSizes}
    \cup {[v |-> "mt", L |-> l, T |-> 1, R |-> r] : l \in FileSizes, r \in 0 .. MaxRequests}
    \cup {[v |-> "mt", L |-> l, T |-> 2, R |-> r] :
            l \in SmallFileSizes, r \in 0 .. MaxRequests}
    \cup UNION {{[v |-> "mt", L |-> l, T |-> t, R |-> r] :
                    l \in SmallFileSizes, r \in 0 .. Min(MaxRequests, t - 1)} :
                 t \in 3 .. MaxThreads}
    \cup {[v |-> "raw", L |-> l, T |-> 1, R |-> 0] : l \in RawHeaders}

\* the timespec of the start of the epoch
Epoch == [tv_sec |-> 0, tv_nsec |-> 0]

InitCli == [connOK |-> FALSE, connRet |-> 0, sock |-> "none", closes |-> 0,
            pc |-> "idle", i |-> 0, total_bytes_sent |-> 0, roundsOK |-> 0,
            hdrSends |-> 0, start |-> Epoch, stop |-> Epoch,
            latency |-> [num |-> 0, den |-> 1]]
InitChan == [hdr |-> 0, pay |-> 0, hdrVal |-> 0, s2c |-> <<>>]
InitSrv(up) == [pc |-> IF up THEN "start" ELSE "none", status |-> 0,
                lsock |-> "none", lCloses |-> 0, sock |-> "none", closes |-> 0,
                hdrRead |-> 0, hdrWhole |-> FALSE, file_size |-> 0, i |-> 0,
                total_bytes_received |-> 0, payloadRead |-> 0, lastRead |-> "none",
                acksSent |-> 0, ackTotal |-> 0, ackAt |-> <<>>, ret |-> 1,
                buf |-> "none", log |-> <<>>]
\* stats: summed            slots of the latency array added to total_latency
\*        count             the number of samples handed to GetStatistics
\*        requests          the request counts the printed line shows
InitStats == [summed |-> {}, count |-> 0, requests |-> {}]

\* the start of a run of one of the configurations cfgs in which at most
\* allowance calls fail or transfer fewer bytes than they could and the clock
\* returns the times of clock
InitWith(allowance, cfgs, clock) ==
    /\ faults = 0 /\ partials = 0 /\ irregular = allowance
    /\ readings = clock
    /\ \E cfg \in cfgs :
        /\ variant = cfg.v
        /\ file_size = cfg.L
        /\ num_threads = cfg.T
        /\ total_requests = cfg.R
        /\ srv = [c \in Conns |-> InitSrv(c < cfg.T)]
    /\ mpc = "start" /\ mi = 0 /\ cstatus = 0
    /\ created = {} /\ joined = {} /\ aggregated = FALSE
    /\ stats = InitStats
    /\ bufState = "none" /\ bufFrees = 0
    /\ latencies = EmptyBag
    /\ csvFile = <<>>
    /\ cli = [c \in Conns |-> InitCli]
    /\ chan = [c \in Conns |-> InitChan]

\* the runs that are followed; the times of the clock are not: every reading
\* is the same
Init == InitWith(MaxIrregular, Configs, {Epoch})

(* ------------------------- tcp/server.c ------------------------------- *)
\* server_main_abort, mutated: the listening socket is left open
server_main_abort_no_close(c, closed, msgs) ==
    srv' = [srv EXCEPT ![c].pc = "exited", ![c].status = EXIT_MINUS_ONE,
                       ![c].log = @ \o msgs \o <<"Error listening to client">>]

\* main after listen_to_client returned -1: "return -1"
server_main_abort(c, closed, msgs) ==
    srv' = [srv EXCEPT ![c].pc = "exited", ![c].status = EXIT_MINUS_ONE,
                       ![c].lsock = IF closed THEN "closed" ELSE @,
                       ![c].lCloses = IF closed THEN @ + 1 ELSE @,
                       ![c].log = @ \o msgs \o <<"Error listening to client">>]

\* listen_to_client up to the blocking accept: socket, setsockopt, bind, listen
listen_to_client_setup(c) ==
    /\ srv[c].pc = "start"
    /\ UNCHANGED <<cfgVars, mainVars, cli, chan>>
    /\ \/ /\ Env(0, 0)
          /\ srv' = [srv EXCEPT ![c].pc = "accept", ![c].lsock = "open"]
       \/ /\ CanFail /\ Env(1, 0)
          /\ server_main_abort(c, FALSE, <<"Error creating socket">>)
       \/ /\ CanFail /\ Env(1, 0)
          /\ \E m \in {"Error in setsockopt", "Error binding", "Error listening for connections"} :
                server_main_abort(c, TRUE, <<m>>)

\* accept returns; the listening socket is closed on both paths
listen_to_client_accept(c) ==
    /\ srv[c].pc = "accept"
    /\ UNCHANGED <<cfgVars, mainVars, cli, chan>>
    /\ \/ /\ cli[c].connOK /\ Env(0, 0)
          /\ srv' = [srv EXCEPT ![c].pc = "hdr", ![c].lsock = "closed",
                                ![c].lCloses = @ + 1, ![c].sock = "open",
                                ![c].log = @ \o <<"Connected to client">>]
       \/ /\ CanFail /\ Env(1, 0)
          /\ server_main_abort(c, TRUE, <<"Error in accepting">>)

\* server_main_finish, mutated: the accepted socket is left open
server_main_finish_no_close(s, failed) ==
    [s EXCEPT !.pc = "exited", !.status = 0,
              !.ret = IF failed THEN -1 ELSE 0,
              !.log = IF failed THEN @ \o <<"Failed to receive file">> ELSE @]

\* main after receive_file returned: a failure is only printed, then
\* close(clientfd) and "return 0"
server_main_finish(s, failed) ==
    [s EXCEPT !.pc = "exited", !.status = 0, !.sock = "closed", !.closes = @ + 1,
              !.ret = IF failed THEN -1 ELSE 0,
              !.log = IF failed THEN @ \o <<"Failed to receive file">> ELSE @]

\* size_in_range, mutated: the upper bound is not tested
size_in_range_no_upper(fs) == ~(fs < SERVER_MIN_FILE_SIZE)

\* the range check of receive_file on the value read from the header
size_in_range(fs) == ~(fs < SERVER_MIN_FILE_SIZE \/ fs > MAX_FILE_SIZE)

\* receive_file from the header read to the first payload read
receive_file_header(c) ==
    /\ srv[c].pc = "hdr"
    /\ UNCHANGED <<cfgVars, mainVars, cli>>
    /\ LET avail == chan[c].hdr + chan[c].pay
           \* n bytes were read and file_size holds fs
           after(n, fs) == [srv[c] EXCEPT !.hdrRead = n, !.file_size = fs,
                                          !.hdrWhole = (n = HEADER_BYTES /\ chan[c].hdr = HEADER_BYTES)]
           taken(n) == [chan EXCEPT ![c].hdr = 0, ![c].pay = chan[c].hdr + chan[c].pay - n]
           checked(n, fs, nomem) ==
               IF ~size_in_range(fs)
               THEN server_main_finish(
                        [after(n, fs) EXCEPT !.log = @ \o <<"Received file size is out of the expected range">>],
                        TRUE)
               ELSE IF nomem
               THEN server_main_finish(
                        [after(n, fs) EXCEPT !.log = @ \o <<"Received file size", "Failed to allocate buffer">>],
                        TRUE)
               ELSE [after(n, fs) EXCEPT !.pc = "recv", !.buf = "alloc", !.i = 0,
                                         !.total_bytes_received = 0,
                                         !.log = @ \o <<"Received file size">>]
       IN
       \/ \* read returns a negative value
          /\ CanFail /\ Env(1, 0)
          /\ srv' = [srv EXCEPT ![c] = server_main_finish(
                        [srv[c] EXCEPT !.hdrRead = -1,
                                       !.log = @ \o <<"Failed to read file size">>], TRUE)]
          /\ UNCHANGED chan
       \/ \* read returns n > 0 bytes: file_size is the header's value only if
          \* these are the eight bytes of a whole header
          /\ avail > 0
          /\ \E n \in Transfers(avail, HEADER_BYTES) :
             \E fs \in (IF n = HEADER_BYTES /\ chan[c].hdr = HEADER_BYTES
                        THEN {chan[c].hdrVal} ELSE GarbageSizes) :
                /\ Env(0, IsShort(n, avail, HEADER_BYTES))
                /\ srv' = [srv EXCEPT ![c] = checked(n, fs, FALSE)]
                /\ chan' = taken(n)
       \/ \* read returns 0: the peer closed; file_size stays uninitialised
          /\ avail = 0 /\ PeerClosedC(c)
          /\ \E fs \in GarbageSizes :
                /\ Env(0, 0)
                /\ srv' = [srv EXCEPT ![c] = checked(0, fs, FALSE)]
                /\ UNCHANGED chan
       \/ \* malloc(PAGE_SIZE) fails after a whole header was read
          /\ CanFail /\ avail >= HEADER_BYTES /\ chan[c].hdr = HEADER_BYTES
          /\ size_in_range(chan[c].hdrVal)
          /\ Env(1, 0)
          /\ srv' = [srv EXCEPT ![c] = checked(HEADER_BYTES, chan[c].hdrVal, TRUE)]
          /\ chan' = taken(HEADER_BYTES)

\* send_success_message: the four bytes of htonl(6) go to the client
send_success_message(ch) == [ch EXCEPT !.s2c = @ \o htonl(ACK_NUMBER)]

\* unit_complete, mutated: the unit ends with the first read
unit_complete_after_one_read(total, fs) == TRUE

\* the test that ends the inner loop of receive_file
unit_complete(total, fs) == ~(total < fs)

\* unit_matches, mutated: every unit that ended is acknowledged
unit_matches_always(total, fs) == TRUE

\* the test that chooses between the acknowledgment and the mismatch message
unit_matches(total, fs) == ~(total # fs)

\* next_round, mutated: file_size is set anew at the start of each round
next_round_new_size(t) ==
    IF t.i + 1 < SERVER_ROUNDS
    THEN [t EXCEPT !.i = @ + 1, !.total_bytes_received = 0, !.file_size = SERVER_MIN_FILE_SIZE]
    ELSE server_main_finish([t EXCEPT !.i = @ + 1, !.buf = "freed"], FALSE)

\* next_round, mutated: one round more is served
next_round_one_more(t) ==
    IF t.i < SERVER_ROUNDS
    THEN [t EXCEPT !.i = @ + 1, !.total_bytes_received = 0]
    ELSE server_main_finish([t EXCEPT !.i = @ + 1, !.buf = "freed"], FALSE)

\* the next round, or the end of receive_file after SERVER_ROUNDS rounds
next_round(t) ==
    IF t.i + 1 < SERVER_ROUNDS
    THEN [t EXCEPT !.i = @ + 1, !.total_bytes_received = 0]
    ELSE server_main_finish([t EXCEPT !.i = @ + 1, !.buf = "freed"], FALSE)

\* one read of the payload loop of receive_file and what follows it up to
\* the next read
receive_file_read(c) ==
    /\ srv[c].pc = "recv"
    /\ UNCHANGED <<cfgVars, mainVars, cli>>
    /\ LET s == srv[c] IN
       \/ \* read returns a negative value
          /\ CanFail /\ Env(1, 0)
          /\ srv' = [srv EXCEPT ![c] = server_main_finish(
                        [s EXCEPT !.buf = "freed", !.lastRead = "error",
                                  !.log = @ \o <<"Error receiving data">>], TRUE)]
          /\ UNCHANGED chan
       \/ \* read returns 0
          /\ chan[c].pay = 0 /\ PeerClosedC(c) /\ Env(0, 0)
          /\ srv' = [srv EXCEPT ![c] = server_main_finish(
                        [s EXCEPT !.buf = "freed", !.lastRead = "eof",
                                  !.log = @ \o <<"Connection closed by peer">>], TRUE)]
          /\ UNCHANGED chan
       \/ \* read returns n > 0 bytes
          /\ chan[c].pay > 0
          /\ \E n \in Transfers(chan[c].pay, PAGE_SIZE) :
             LET total == s.total_bytes_received + n
                 got == [s EXCEPT !.total_bytes_received = total, !.payloadRead = @ + n,
                                  !.lastRead = "data"]
                 rest == [chan[c] EXCEPT !.pay = @ - n]
                 short == IsShort(n, chan[c].pay, PAGE_SIZE)
             IN
             IF ~unit_complete(total, s.file_size)
             THEN /\ Env(0, short)
                  /\ srv' = [srv EXCEPT ![c] = got]
                  /\ chan' = [chan EXCEPT ![c] = rest]
             ELSE IF ~unit_matches(total, s.file_size)
             THEN /\ Env(0, short)
                  /\ srv' = [srv EXCEPT ![c] = next_round(
                                [got EXCEPT !.log = @ \o <<"Mismatch in the file size received and expected">>])]
                  /\ chan' = [chan EXCEPT ![c] = rest]
             ELSE \/ \* the acknowledgment is sent
                     /\ Env(0, short)
                     /\ srv' = [srv EXCEPT ![c] = next_round(
                                   [got EXCEPT !.acksSent = @ + 1, !.ackTotal = total,
                                               !.ackAt = Append(@, got.payloadRead)])]
                     /\ chan' = [chan EXCEPT ![c] = IF PeerClosedC(c) THEN rest
                                                   ELSE send_success_message(rest)]
                  \/ \* send returns a negative value: return -1 without free(buffer)
                     /\ CanFail \/ PeerClosedC(c)
                     /\ Env(IF PeerClosedC(c) THEN 0 ELSE 1, short)
                     /\ srv' = [srv EXCEPT ![c] = server_main_finish(
                                   [got EXCEPT !.log = @ \o <<"Failed to send number">>], TRUE)]
                     /\ chan' = [chan EXCEPT ![c] = rest]

(* ------------- code shared by tcp/client.c and tcp/client/client.c ----- *)
\* connect_to_server: what the function returns, given the descriptor socket()
\* returned and the result of connect(); a failed connect is only printed
connect_to_server(sockfd, err) == IF sockfd < 0 THEN -1 ELSE sockfd

\* the calls of connect_to_server on connection c and their results:
\* fd is what socket() returned, err what connect() returned
connect_calls(c) ==
    When(CanFail, {[fd |-> -1, err |-> -1, f |-> 1]})
    \cup When(srv[c].lsock = "open", {[fd |-> 3 + c, err |-> 0, f |-> 0]})
    \cup When(srv[c].lsock # "open", {[fd |-> 3 + c, err |-> -1, f |-> 0]})

\* the client end after connect_to_server
connected(e, k) ==
    [e EXCEPT !.connRet = connect_to_server(k.fd, k.err),
              !.connOK = (k.fd >= 0 /\ k.err = 0),
              !.sock = IF k.fd >= 0 THEN "open" ELSE "none"]

\* client_size_in_range, mutated: the lower bound is not tested
client_size_in_range_no_lower(fs) == ~(fs > CLIENT_MAX_FILE_SIZE)

\* the range check both clients make before they send the header
client_size_in_range(fs) == ~(fs < CLIENT_MIN_FILE_SIZE \/ fs > CLIENT_MAX_FILE_SIZE)

\* results of send(sockfd, &file_size, sizeof(file_size), 0): n is the value
\* returned, put the bytes that go to the server
header_sends(c) ==
    IF ~cli[c].connOK
    THEN {[n |-> -1, put |-> 0, f |-> 0, p |-> 0]}
    ELSE {[n |-> HEADER_BYTES, put |-> IF PeerClosedS(c) THEN 0 ELSE HEADER_BYTES, f |-> 0, p |-> 0]}
         \cup When(PeerClosedS(c), {[n |-> -1, put |-> 0, f |-> 0, p |-> 0]})
         \cup When(CanFail /\ ~PeerClosedS(c), {[n |-> -1, put |-> 0, f |-> 1, p |-> 0]})
         \cup {[n |-> k, put |-> k, f |-> 0, p |-> 1] :
                 k \in (IF CanPartial /\ ~PeerClosedS(c) THEN ShortOf(HEADER_BYTES) ELSE {})}

\* results of a send of want payload bytes
payload_sends(c, want) ==
    LET room == SockBuf - (chan[c].hdr + chan[c].pay) IN
    IF PeerClosedS(c)
    THEN {[n |-> want, put |-> 0, f |-> 0, p |-> 0], [n |-> -1, put |-> 0, f |-> 0, p |-> 0]}
    ELSE When(room >= want, {[n |-> want, put |-> want, f |-> 0, p |-> 0]})
         \cup When(CanFail, {[n |-> -1, put |-> 0, f |-> 1, p |-> 0]})
         \cup {[n |-> k, put |-> k, f |-> 0, p |-> 1] :
                 k \in (IF CanPartial THEN {j \in ShortOf(want) : j <= room} ELSE {})}

\* results of recv(sock, &net_number, sizeof(net_number), 0): n is the value
\* returned and mem the four bytes of net_number after the call; the bytes
\* recv did not write keep whatever the uninitialised variable held
ack_recvs(c) ==
    LET have == Len(chan[c].s2c)
        mems(n) == {SubSeq(chan[c].s2c, 1, n) \o SubSeq(u, n + 1, ACK_BYTES) :
                        u \in [1 .. ACK_BYTES -> UninitBytes]}
    IN
    When(CanFail, {[n |-> -1, mem |-> <<0, 0, 0, 0>>, f |-> 1, p |-> 0]})
    \cup When(have = 0 /\ PeerClosedS(c), {[n |-> -1, mem |-> <<0, 0, 0, 0>>, f |-> 0, p |-> 0]})
    \cup {[n |-> 0, mem |-> m, f |-> 0, p |-> 0] :
            m \in (IF have = 0 /\ PeerClosedS(c) THEN mems(0) ELSE {})}
    \cup UNION {{[n |-> k, mem |-> m, f |-> 0, p |-> IsShort(k, have, ACK_BYTES)] : m \in mems(k)} :
                  k \in (IF have > 0 THEN Transfers(have, ACK_BYTES) ELSE {})}

\* validate_success_message: 0 or -1, given the result r of the recv call
validate_success_message(r) ==
    IF r.n < 0 THEN -1
    ELSE IF ntohl(r.mem) # ACK_NUMBER THEN -1
    ELSE 0

\* the bytes a recv that returned n leaves in the stream
after_recv(ch, n) == [ch EXCEPT !.s2c = SubSeq(@, (IF n > 0 THEN n ELSE 0) + 1, Len(@))]

\* exit_threads, mutated: main closes the sockets of the running threads
exit_threads_closing_sockets(f) == [c \in Conns |->
    IF f[c].pc \in {"loop", "send", "ack"}
    THEN [f[c] EXCEPT !.pc = "killed", !.sock = "closed", !.closes = @ + 1] ELSE f[c]]

\* the process ends: its threads end with it
exit_threads(f) == [c \in Conns |->
    IF f[c].pc \in {"loop", "send", "ack"} THEN [f[c] EXCEPT !.pc = "killed"] ELSE f[c]]

(* ------------------- the latency of a round, both clients -------------- *)
BILLION == 1000000000

\* the nanoseconds of the round, mutated: the difference of the tv_nsec
\* fields is taken without its sign
latency_nanos_unsigned(start, stop) ==
    (stop.tv_sec - start.tv_sec) * BILLION
    + (IF stop.tv_nsec < start.tv_nsec THEN start.tv_nsec - stop.tv_nsec
                                       ELSE stop.tv_nsec - start.tv_nsec)

\* (stop.tv_sec - start.tv_sec) * (double)BILLION + (double)(stop.tv_nsec -
\* start.tv_nsec): the difference of the seconds in nanoseconds plus the
\* signed difference of the tv_nsec fields
latency_nanos(start, stop) ==
    (stop.tv_sec - start.tv_sec) * BILLION + (stop.tv_nsec - start.tv_nsec)

\* latency = latency / 1000.0: the quotient, kept as numerator and denominator
latency_micros(start, stop) == [num |-> latency_nanos(start, stop), den |-> 1000]

(* ------------------- tcp/client/client.c (multi-threaded) -------------- *)
\* per_thread, mutated: the share is rounded up
per_thread_rounded_up(R, T) == (R + T - 1) \div T

\* the share of each worker: total_requests / num_threads in int arithmetic
per_thread(R, T) == R \div T

requests_per_thread == per_thread(total_requests, num_threads)

\* start_index of send_files, mutated: every worker starts at slot 0
start_index_shared(thread_index, rpt) == 0

\* start_index of send_files, mutated: the range of the next worker
start_index_next_thread(thread_index, rpt) == (thread_index + 1) * rpt

\* start_index of send_files for a worker
start_index(thread_index, rpt) == thread_index * rpt

\* main returns: the process ends with the given status
main_return(status, ends) ==
    /\ mpc' = "exited"
    /\ cstatus' = status
    /\ cli' = exit_threads(ends)

\* main from the allocation of the payload buffer to the first connect
main_start ==
    /\ variant = "mt" /\ mpc = "start"
    /\ UNCHANGED <<cfgVars, chan, srv, mi, created, joined, aggregated, stats, bufFrees,
                   latencies, csvFile>>
    /\ \/ /\ Env(0, 0)
          /\ bufState' = "alloc"
          /\ mpc' = "connect"
          /\ UNCHANGED <<cstatus, cli>>
       \/ \* malloc of the buffer or of the latency array fails
          /\ CanFail /\ Env(1, 0)
          /\ \E b \in {"none", "alloc"} : bufState' = b
          /\ main_return(EXIT_MINUS_ONE, cli)

\* one connect_to_server call of main's loop, with the checks that follow it
main_connect ==
    /\ variant = "mt" /\ mpc = "connect" /\ mi < num_threads
    /\ UNCHANGED <<cfgVars, chan, srv, mi, created, joined, aggregated, stats, bufState,
                   bufFrees, latencies, csvFile>>
    /\ \E k \in connect_calls(mi) :
        LET e == connected(cli[mi], k) IN
        /\ Env(k.f, 0)
        /\ IF e.connRet = -1
           THEN main_return(EXIT_MINUS_ONE, [cli EXCEPT ![mi] = e])
           ELSE IF ~client_size_in_range(file_size)
           THEN main_return(EXIT_MINUS_ONE,
                    [cli EXCEPT ![mi] = [e EXCEPT !.sock = "closed", !.closes = @ + 1]])
           ELSE /\ mpc' = "hdr"
                /\ cli' = [cli EXCEPT ![mi] = e]
                /\ UNCHANGED cstatus

\* the header send of main's loop and pthread_create
main_send_header ==
    /\ variant = "mt" /\ mpc = "hdr"
    /\ UNCHANGED <<cfgVars, srv, joined, aggregated, stats, bufState, bufFrees, latencies, csvFile>>
    /\ \E r \in header_sends(mi) :
        LET e == [cli[mi] EXCEPT !.hdrSends = @ + 1] IN
        /\ Env(r.f, r.p)
        /\ chan' = [chan EXCEPT ![mi].hdr = @ + r.put, ![mi].hdrVal = file_size]
        /\ IF r.n < 0
           THEN /\ main_return(EXIT_MINUS_ONE,
                       [cli EXCEPT ![mi] = [e EXCEPT !.sock = "closed", !.closes = @ + 1]])
                /\ UNCHANGED <<mi, created>>
           ELSE /\ cli' = [cli EXCEPT ![mi] = [e EXCEPT !.pc = "loop", !.i = 0]]
                /\ created' = created \cup {mi}
                /\ mi' = mi + 1
                /\ mpc' = IF mi + 1 < num_threads THEN "connect" ELSE "join"
                /\ UNCHANGED cstatus

\* a thread has returned from send_files
terminated(c) == cli[c].pc \in {"done", "failed"}

\* one pthread_join of main's second loop
main_join ==
    /\ variant = "mt" /\ mpc = "join"
    /\ \E t \in 0 .. (num_threads - 1) :
        /\ t \notin joined
        /\ \A u \in 0 .. (t - 1) : u \in joined
        /\ terminated(t)
        /\ joined' = joined \cup {t}
        /\ mpc' = IF t + 1 < num_threads THEN "join" ELSE "report"
    /\ Env(0, 0)
    /\ UNCHANGED <<cfgVars, cli, chan, srv, mi, cstatus, created, aggregated, stats, bufState,
                   bufFrees, latencies, csvFile>>

CSV_HEADER == "requests, bytes, threads, RPS, StdErr, Min, Max, Avg, 50th, 90th, 99th, 99.9th, 99.99th"

\* the line main prints for a value of target_metric
csv_line(target_metric) ==
    CASE target_metric = 1 -> "row13"
      [] target_metric = 2 -> "Min:"
      [] target_metric = 3 -> "Max:"
      [] target_metric = 4 -> "Avg:"
      [] target_metric = 5 -> "50th:"
      [] target_metric = 6 -> "90th:"
      [] target_metric = 7 -> "99th:"
      [] target_metric = 8 -> "99.9th:"
      [] target_metric = 9 -> "99.99th:"
      [] OTHER -> "Invalid target metric."

Metrics == {0, 1, 2}

\* the output file after a run, mutated: the header row is written by every run
csv_append_header_always(file, target_metric) ==
    file \o <<CSV_HEADER>> \o <<csv_line(target_metric)>>

\* the output file after fopen(output_file, "a"), the header row when ftell
\* is 0 at the end of the file, and the line of the switch
csv_append(file, target_metric) ==
    file \o (IF Len(file) = 0 THEN <<CSV_HEADER>> ELSE <<>>) \o <<csv_line(target_metric)>>

\* the slots of the latency array the loop before fopen adds to total_latency
summed_slots(R) == 0 .. (R - 1)

\* the number of samples in the call of GetStatistics
samples_count(R) == R

\* the first field of the line of case 1 of the switch; the other cases
\* print no request count
row_requests(target_metric, R) == IF target_metric = 1 THEN {R} ELSE {}

\* main after the joins: the sum over the latency array, the statistics and
\* the output file
main_report ==
    /\ variant = "mt" /\ mpc = "report"
    /\ UNCHANGED <<cfgVars, chan, srv, mi, created, joined, bufState, bufFrees, latencies>>
    /\ aggregated' = TRUE
    /\ \/ /\ Env(0, 0)
          /\ \E target_metric \in Metrics :
                /\ csvFile' = csv_append(csvFile, target_metric)
                /\ stats' = [summed |-> summed_slots(total_requests),
                             count |-> samples_count(total_requests),
                             requests |-> row_requests(target_metric, total_requests)]
          /\ main_return(0, cli)
       \/ \* fopen fails
          /\ CanFail /\ Env(1, 0)
          /\ UNCHANGED csvFile
          /\ stats' = [stats EXCEPT !.summed = summed_slots(total_requests)]
          /\ main_return(EXIT_MINUS_ONE, cli)

\* the head of the loop of send_files: the loop test and clock_gettime(start)
send_files_loop(t) ==
    /\ variant = "mt" /\ cli[t].pc = "loop" /\ mpc # "exited"
    /\ UNCHANGED <<cfgVars, mainVars, chan, srv>>
    /\ IF cli[t].i < requests_per_thread
       THEN \/ /\ Env(0, 0)
               /\ \E now \in readings :
                    cli' = [cli EXCEPT ![t].pc = "send", ![t].total_bytes_sent = 0,
                                       ![t].start = now]
            \/ \* clock_gettime fails: return NULL
               /\ CanFail /\ Env(1, 0)
               /\ cli' = [cli EXCEPT ![t].pc = "failed"]
       ELSE /\ Env(0, 0)
            /\ cli' = [cli EXCEPT ![t].pc = "done", ![t].sock = "closed", ![t].closes = @ + 1]

\* bytes_to_send, mutated: all the bytes still unsent go into one send
bytes_to_send_all_unsent(fs, sent) == fs - sent

\* the size of the next chunk of send_file
bytes_to_send(fs, sent) == Min(fs - sent, PAGE_SIZE)

\* one send of the loop of send_file
send_file_send(t) ==
    /\ variant = "mt" /\ cli[t].pc = "send" /\ mpc # "exited"
    /\ UNCHANGED <<cfgVars, srv, mpc, mi, cstatus, created, joined, aggregated, stats,
                   latencies, csvFile>>
    /\ \E r \in payload_sends(t, bytes_to_send(file_size, cli[t].total_bytes_sent)) :
        /\ Env(r.f, r.p)
        /\ chan' = [chan EXCEPT ![t].pay = @ + r.put]
        /\ IF r.n < 0
           THEN \* free(buffer); close(sock); return -1; send_files returns NULL
                /\ bufState' = "freed"
                /\ bufFrees' = bufFrees + 1
                /\ cli' = [cli EXCEPT ![t].pc = "failed", ![t].sock = "closed",
                                      ![t].closes = @ + 1]
           ELSE /\ UNCHANGED <<bufState, bufFrees>>
                /\ cli' = [cli EXCEPT ![t].total_bytes_sent = @ + r.n,
                                      ![t].pc = IF cli[t].total_bytes_sent + r.n < file_size
                                                THEN "send" ELSE "ack"]

\* the recv of validate_success_message and the rest of the round
send_file_ack(t) ==
    /\ variant = "mt" /\ cli[t].pc = "ack" /\ mpc # "exited"
    /\ UNCHANGED <<cfgVars, srv, mpc, mi, cstatus, created, joined, aggregated, stats,
                   bufState, bufFrees, csvFile>>
    /\ \E r \in ack_recvs(t) :
        /\ chan' = [chan EXCEPT ![t] = after_recv(@, r.n)]
        /\ IF validate_success_message(r) < 0
           THEN \* close(sock); return -1; send_files returns NULL
                /\ Env(r.f, r.p)
                /\ cli' = [cli EXCEPT ![t].pc = "failed", ![t].sock = "closed",
                                      ![t].closes = @ + 1]
                /\ UNCHANGED latencies
           ELSE \/ /\ Env(r.f, r.p)
                   /\ latencies' = latencies (+) SetToBag({<<start_index(t, requests_per_thread) + cli[t].i, t>>})
                   /\ \E now \in readings :
                        cli' = [cli EXCEPT ![t].pc = "loop", ![t].i = @ + 1,
                                           ![t].roundsOK = @ + 1, ![t].stop = now,
                                           ![t].latency = latency_micros(cli[t].start, now)]
                \/ \* clock_gettime(stop) fails: return NULL
                   /\ CanFail /\ r.f = 0 /\ Env(1, r.p)
                   /\ cli' = [cli EXCEPT ![t].pc = "failed"]
                   /\ UNCHANGED latencies

(* ----------------------- tcp/client.c (single-threaded) ---------------- *)
\* rounds of one connection the model follows
MaxRounds == 12

\* main up to the header send: connect_to_server and the range check
st_main_connect ==
    /\ variant = "st" /\ mpc = "start"
    /\ UNCHANGED <<cfgVars, chan, srv, mi, created, joined, aggregated, stats, bufState,
                   bufFrees, latencies, csvFile>>
    /\ \E k \in connect_calls(0) :
        LET e == connected(cli[0], k) IN
        /\ Env(k.f, 0)
        /\ IF e.connRet = -1
           THEN main_return(EXIT_MINUS_ONE, [cli EXCEPT ![0] = e])
           ELSE IF ~client_size_in_range(file_size)
           THEN main_return(EXIT_MINUS_ONE,
                    [cli EXCEPT ![0] = [e EXCEPT !.sock = "closed", !.closes = @ + 1]])
           ELSE /\ mpc' = "hdr"
                /\ cli' = [cli EXCEPT ![0] = e]
                /\ UNCHANGED cstatus

\* the header send, the payload buffer and the latency array
st_main_send_header ==
    /\ variant = "st" /\ mpc = "hdr"
    /\ UNCHANGED <<cfgVars, srv, mi, created, joined, aggregated, stats, bufFrees, latencies, csvFile>>
    /\ \E r \in header_sends(0) :
        LET e == [cli[0] EXCEPT !.hdrSends = @ + 1]
            shut == [e EXCEPT !.sock = "closed", !.closes = @ + 1]
        IN
        /\ chan' = [chan EXCEPT ![0].hdr = @ + r.put, ![0].hdrVal = file_size]
        /\ IF r.n < 0
           THEN /\ Env(r.f, r.p)
                /\ main_return(EXIT_MINUS_ONE, [cli EXCEPT ![0] = shut])
                /\ UNCHANGED bufState
           ELSE \/ /\ Env(r.f, r.p)
                   /\ bufState' = "alloc"
                   /\ mpc' = "rounds"
                   /\ cli' = [cli EXCEPT ![0] = [e EXCEPT !.pc = "loop", !.i = 0]]
                   /\ UNCHANGED cstatus
                \/ \* malloc(file_size) or the fread into the buffer fails
                   /\ CanFail /\ r.f = 0 /\ Env(1, r.p)
                   /\ \E b \in {"none", "freed"} : bufState' = b
                   /\ main_return(EXIT_MINUS_ONE, [cli EXCEPT ![0] = shut])

\* the head of main's round loop: rewind, clock_gettime(start); after the
\* last round the statistics are printed and the socket is closed
st_main_loop ==
    /\ variant = "st" /\ mpc = "rounds" /\ cli[0].pc = "loop"
    /\ cli[0].i < MaxRounds
    /\ UNCHANGED <<cfgVars, chan, srv, mi, created, joined, bufState, bufFrees,
                   latencies, csvFile>>
    /\ IF cli[0].i < test_rounds
       THEN \/ /\ Env(0, 0)
               /\ \E now \in readings :
                    cli' = [cli EXCEPT ![0].pc = "send", ![0].total_bytes_sent = 0,
                                       ![0].start = now]
               /\ UNCHANGED <<mpc, cstatus, aggregated, stats>>
            \/ \* clock_gettime fails: return -1
               /\ CanFail /\ Env(1, 0)
               /\ main_return(EXIT_MINUS_ONE, [cli EXCEPT ![0].pc = "failed"])
               /\ UNCHANGED <<aggregated, stats>>
       ELSE /\ Env(0, 0)
            /\ aggregated' = TRUE
            /\ stats' = [summed |-> summed_slots(test_rounds),
                         count |-> samples_count(test_rounds),
                         requests |-> {test_rounds}]
            /\ main_return(0, [cli EXCEPT ![0].pc = "done", ![0].sock = "closed",
                                          ![0].closes = @ + 1])

\* the bytes fread hands to the next send of send_file: up to PAGE_SIZE bytes
\* from the current position of the file
bytes_read(fs, pos) == Min(fs - pos, PAGE_SIZE)

\* one fread and send of the loop of send_file: the value send returns is
\* only tested for being negative
st_send_file_send ==
    /\ variant = "st" /\ mpc = "rounds" /\ cli[0].pc = "send"
    /\ UNCHANGED <<cfgVars, srv, mi, created, joined, aggregated, stats, latencies, csvFile>>
    /\ LET want == bytes_read(file_size, cli[0].total_bytes_sent) IN
       \E r \in payload_sends(0, want) :
        /\ Env(r.f, r.p)
        /\ chan' = [chan EXCEPT ![0].pay = @ + r.put]
        /\ IF r.n < 0
           THEN \* free(buffer); fclose(file); close(sock); return -1; main returns -1
                /\ bufState' = "freed"
                /\ bufFrees' = bufFrees + 1
                /\ main_return(EXIT_MINUS_ONE,
                       [cli EXCEPT ![0].pc = "failed", ![0].sock = "closed",
                                   ![0].closes = @ + 1])
           ELSE /\ UNCHANGED <<bufState, bufFrees, mpc, cstatus>>
                /\ cli' = [cli EXCEPT ![0].total_bytes_sent = @ + want,
                                      ![0].pc = IF bytes_read(file_size, cli[0].total_bytes_sent + want) > 0
                                                THEN "send" ELSE "ack"]

\* the recv of validate_success_message and the rest of the round
st_send_file_ack ==
    /\ variant = "st" /\ mpc = "rounds" /\ cli[0].pc = "ack"
    /\ UNCHANGED <<cfgVars, srv, mi, created, joined, aggregated, stats, bufState, bufFrees,
                   csvFile>>
    /\ \E r \in ack_recvs(0) :
        /\ chan' = [chan EXCEPT ![0] = after_recv(@, r.n)]
        /\ IF validate_success_message(r) < 0
           THEN \* close(sock); return -1; main returns -1
                /\ Env(r.f, r.p)
                /\ main_return(EXIT_MINUS_ONE,
                       [cli EXCEPT ![0].pc = "failed", ![0].sock = "closed",
                                   ![0].closes = @ + 1])
                /\ UNCHANGED latencies
           ELSE \/ /\ Env(r.f, r.p)
                   /\ latencies' = latencies (+) SetToBag({<<cli[0].i, 0>>})
                   /\ \E now \in readings :
                        cli' = [cli EXCEPT ![0].pc = "loop", ![0].i = @ + 1,
                                           ![0].roundsOK = @ + 1, ![0].stop = now,
                                           ![0].latency = latency_micros(cli[0].start, now)]
                   /\ UNCHANGED <<mpc, cstatus>>
                \/ \* clock_gettime(stop) fails: return -1
                   /\ CanFail /\ r.f = 0 /\ Env(1, r.p)
                   /\ main_return(EXIT_MINUS_ONE, [cli EXCEPT ![0].pc = "failed"])
                   /\ UNCHANGED latencies

(* ----------------------- any peer of the server ------------------------ *)
\* a peer connects and writes a header that declares file_size
raw_connect ==
    /\ variant = "raw" /\ mpc = "start" /\ srv[0].lsock = "open"
    /\ Env(0, 0)
    /\ mpc' = "rounds"
    /\ cli' = [cli EXCEPT ![0].connOK = TRUE, ![0].connRet = 3, ![0].sock = "open",
                          ![0].hdrSends = 1]
    /\ chan' = [chan EXCEPT ![0].hdr = HEADER_BYTES, ![0].hdrVal = file_size]
    /\ UNCHANGED <<cfgVars, srv, mi, cstatus, created, joined, aggregated, stats, bufState,
                   bufFrees, latencies, csvFile>>

\* the peer writes some payload bytes
raw_send ==
    /\ variant = "raw" /\ mpc = "rounds" /\ cli[0].sock = "open"
    /\ cli[0].i < MaxRawSends
    /\ ~PeerClosedS(0)
    /\ Env(0, 0)
    /\ \E n \in RawSends : chan' = [chan EXCEPT ![0].pay = @ + n]
    /\ cli' = [cli EXCEPT ![0].i = @ + 1]
    /\ UNCHANGED <<cfgVars, mainVars, srv>>

\* the peer closes the connection
raw_close ==
    /\ variant = "raw" /\ mpc = "rounds" /\ cli[0].sock = "open"
    /\ Env(0, 0)
    /\ cli' = [cli EXCEPT ![0].sock = "closed", ![0].closes = @ + 1]
    /\ UNCHANGED <<cfgVars, mainVars, chan, srv>>

(* ----------------------------- behaviours ------------------------------ *)
Next ==
    \/ \E c \in Conns : listen_to_client_setup(c)
    \/ \E c \in Conns : listen_to_client_accept(c)
    \/ \E c \in Conns : receive_file_header(c)
    \/ \E c \in Conns : receive_file_read(c)
    \/ main_start
    \/ main_connect
    \/ main_send_header
    \/ main_join
    \/ main_report
    \/ \E t \in Conns : send_files_loop(t)
    \/ \E t \in Conns : send_file_send(t)
    \/ \E t \in Conns : send_file_ack(t)
    \/ st_main_connect
    \/ st_main_send_header
    \/ st_main_loop
    \/ st_send_file_send
    \/ st_send_file_ack
    \/ raw_connect
    \/ raw_send
    \/ raw_close

Spec == Init /\ [][Next]_vars

(* ------------- runs of tcp/client/client.c on one output file ---------- *)
\* completed runs that are followed on one output file
MaxRuns == 2

\* the runs that are repeated: one worker
RunConfigs == {cfg \in Configs : cfg.v = "mt" /\ cfg.T = 1 /\ cfg.L \in SmallFileSizes}

InitRuns == Init /\ [v |-> variant, L |-> file_size, T |-> num_threads, R |-> total_requests] \in RunConfigs

\* the client has ended and is started again with the same output file,
\* against a server that was started again
run_again ==
    /\ variant = "mt" /\ mpc = "exited"
    /\ Len(csvFile) < MaxRuns + 1
    /\ \E cfg \in RunConfigs :
        /\ file_size' = cfg.L
        /\ num_threads' = cfg.T
        /\ total_requests' = cfg.R
        /\ srv' = [c \in Conns |-> InitSrv(c < cfg.T)]
    /\ mpc' = "start" /\ mi' = 0 /\ cstatus' = 0
    /\ created' = {} /\ joined' = {} /\ aggregated' = FALSE
    /\ stats' = InitStats
    /\ bufState' = "none" /\ bufFrees' = 0
    /\ latencies' = EmptyBag
    /\ cli' = [c \in Conns |-> InitCli]
    /\ chan' = [c \in Conns |-> InitChan]
    /\ UNCHANGED <<envVars, irregular, readings, variant, csvFile>>

NextRuns ==
    \/ \E c \in Conns : listen_to_client_setup(c)
    \/ \E c \in Conns : listen_to_client_accept(c)
    \/ \E c \in Conns : receive_file_header(c)
    \/ \E c \in Conns : receive_file_read(c)
    \/ main_start
    \/ main_connect
    \/ main_send_header
    \/ main_join
    \/ main_report
    \/ \E t \in Conns : send_files_loop(t)
    \/ \E t \in Conns : send_file_send(t)
    \/ \E t \in Conns : send_file_ack(t)
    \/ run_again

SpecRuns == InitRuns /\ [][NextRuns]_vars

(* ------ one worker of tcp/client/client.c with one more irregular call -- *)
\* one worker that sends MaxRequests rounds of the smallest length the
\* server accepts
OneWorkerConfigs ==
    {cfg \in Configs : cfg.v = "mt" /\ cfg.T = 1 /\ cfg.L = SERVER_MIN_FILE_SIZE
                        /\ cfg.R = MaxRequests}

InitOneWorker == InitWith(MaxIrregular + 1, OneWorkerConfigs, {Epoch})

NextOneWorker ==
    \/ \E c \in Conns : listen_to_client_setup(c)
    \/ \E c \in Conns : listen_to_client_accept(c)
    \/ \E c \in Conns : receive_file_header(c)
    \/ \E c \in Conns : receive_file_read(c)
    \/ main_start
    \/ main_connect
    \/ main_send_header
    \/ main_join
    \/ main_report
    \/ \E t \in Conns : send_files_loop(t)
    \/ \E t \in Conns : send_file_send(t)
    \/ \E t \in Conns : send_file_ack(t)

SpecOneWorker == InitOneWorker /\ [][NextOneWorker]_vars

(* ------------- runs in which the times of the clock are followed -------- *)
\* normalised readings of the clock, in no order: CLOCK_REALTIME can be set
\* back between two readings
ClockTimes ==
    {[tv_sec |-> 0, tv_nsec |-> 0], [tv_sec |-> 0, tv_nsec |-> 999999999],
     [tv_sec |-> 1, tv_nsec |-> 0], [tv_sec |-> 1, tv_nsec |-> 1500]}

\* one connection of each client and of an arbitrary peer
LatencyConfigs ==
    {[v |-> "st", L |-> SERVER_MIN_FILE_SIZE, T |-> 1, R |-> 0],
     [v |-> "mt", L |-> SERVER_MIN_FILE_SIZE, T |-> 1, R |-> MaxRequests],
     [v |-> "raw", L |-> SERVER_MIN_FILE_SIZE, T |-> 1, R |-> 0]}

InitLatency == InitWith(MaxIrregular, LatencyConfigs, ClockTimes)

SpecLatency == InitLatency /\ [][Next]_vars

(* ------------------------------ claims --------------------------------- *)
Range(q) == {q[k] : k \in 1 .. Len(q)}

\* the connections of a client of the repository
ClientConns == IF variant = "raw" THEN {} ELSE 0 .. (num_threads - 1)

\* C1: round-trip completeness.  For every length 8 <= L <= 1048576 and every
\* round of a client, once the header and the L payload bytes of the round are
\* sent, the server sends the acknowledgment of that round.  As a safety
\* statement on a run without failed or short calls: a client that waits for
\* the acknowledgment of round i never faces a server that has ended with no
\* more than i acknowledgments sent.
C1_RoundTripComplete ==
    \A c \in ClientConns :
        (/\ faults + partials = 0
         /\ CLIENT_MIN_FILE_SIZE <= file_size /\ file_size <= CLIENT_MAX_FILE_SIZE
         /\ cli[c].pc = "ack"
         /\ cli[c].total_bytes_sent = file_size)
        => ~(srv[c].pc = "exited" /\ srv[c].acksSent <= cli[c].i)

\* C2: the server sends an acknowledgment only when the bytes counted for the
\* unit equal file_size; a read that returns fewer bytes than are missing only
\* adds to the count: no acknowledgment, no message, no end of the round.
C2_AckOnlyOnExactCount ==
    /\ [](\A c \in Conns : srv[c].acksSent > 0 => srv[c].ackTotal = srv[c].file_size)
    /\ [][\A c \in Conns :
            LET n == srv'[c].payloadRead - srv[c].payloadRead IN
            (srv[c].pc = "recv" /\ n > 0 /\ srv[c].total_bytes_received + n < srv[c].file_size)
            => /\ srv'[c].pc = "recv"
               /\ srv'[c].i = srv[c].i
               /\ srv'[c].total_bytes_received = srv[c].total_bytes_received + n
               /\ srv'[c].acksSent = srv[c].acksSent
               /\ srv'[c].log = srv[c].log
               /\ chan'[c].s2c = chan[c].s2c]_vars

\* a unit of more than one chunk, so that its first read returned fewer bytes
\* than were missing, was acknowledged in a run with a short transfer
C2_Witness ==
    \E c \in Conns :
        /\ srv[c].acksSent > 0 /\ srv[c].file_size > PAGE_SIZE
        /\ srv[c].ackTotal = srv[c].file_size
        /\ partials > 0 /\ faults = 0

\* C3: the server accepts a whole header exactly when 8 <= L <= 1048576, so
\* every length that passes the client's range check is accepted.
C3_ServerAcceptsClientRange ==
    \A c \in Conns :
        srv[c].hdrWhole
        => (("Received file size" \in Range(srv[c].log))
            <=> client_size_in_range(srv[c].file_size))

\* C4: a header that declares a length below the server's lower bound (7) or
\* above 1048576 (1048577) makes the server print the range error; it reads no
\* payload byte, allocates no chunk buffer, sends no acknowledgment and ends.
C4_BoundsRejection ==
    \A c \in Conns :
        (srv[c].hdrWhole
         /\ (srv[c].file_size < SERVER_MIN_FILE_SIZE \/ srv[c].file_size > MAX_FILE_SIZE))
        => /\ "Received file size is out of the expected range" \in Range(srv[c].log)
           /\ "Received file size" \notin Range(srv[c].log)
           /\ srv[c].pc = "exited"
           /\ srv[c].payloadRead = 0 /\ srv[c].lastRead = "none"
           /\ srv[c].buf = "none"
           /\ srv[c].acksSent = 0 /\ chan[c].s2c = <<>>

\* a peer declared 1048577 and the server has ended
C4_Witness ==
    /\ variant = "raw"
    /\ srv[0].hdrWhole /\ srv[0].file_size = MAX_FILE_SIZE + 1
    /\ srv[0].pc = "exited"

\* C5: a round is recorded as complete only on an acknowledgment the server
\* sent; hence the rounds a client has recorded never exceed the
\* acknowledgments the server has sent on the connection.
C5_RoundsWithinAcks ==
    \A c \in ClientConns : cli[c].roundsOK <= srv[c].acksSent

\* C6: after a payload read that returned a negative value, or 0 before the
\* unit was complete, the server has sent no acknowledgment for that unit, has
\* closed the connection socket, and does nothing more.
C6_ServerErrorTerminal ==
    /\ [](\A c \in Conns :
            srv[c].lastRead \in {"eof", "error"}
            => /\ srv[c].pc = "exited"
               /\ srv[c].sock = "closed" /\ srv[c].closes = 1
               /\ srv[c].i < SERVER_ROUNDS
               /\ srv[c].acksSent <= srv[c].i
               /\ Len(srv[c].ackAt) = srv[c].acksSent
               /\ \A k \in 1 .. Len(srv[c].ackAt) :
                     srv[c].ackAt[k] <= srv[c].payloadRead - srv[c].total_bytes_received)
    /\ [][\A c \in Conns : srv[c].pc = "exited" => srv'[c] = srv[c]]_vars

\* the peer closed in the middle of a unit
C6_Witness ==
    \E c \in Conns :
        /\ srv[c].lastRead = "eof"
        /\ 0 < srv[c].total_bytes_received
        /\ srv[c].total_bytes_received < srv[c].file_size

\* C7: the server exits with status 0 only if it served its connection
\* without error, and with a nonzero status after any failure.
C7_ServerExitStatus ==
    \A c \in Conns :
        srv[c].pc = "exited" => (srv[c].status = 0 <=> srv[c].ret = 0)

\* C8: connect_to_server returns -1 when socket creation or connect fails, so
\* no header is sent on a socket whose connect failed.
C8_ConnectSentinel ==
    \A c \in ClientConns :
        /\ (cli[c].connRet # 0 /\ ~cli[c].connOK) => cli[c].connRet = -1
        /\ cli[c].hdrSends > 0 => cli[c].connOK

\* the slots of worker t: [t * (R / T), (t + 1) * (R / T))
SlotsOf(t, R, T) ==
    {start_index(t, per_thread(R, T)) + i : i \in 0 .. (per_thread(R, T) - 1)}

PartThreads == 5
PartRequests == 12

\* C9: the slot ranges of the workers are pairwise disjoint and cover exactly
\* [0, T * (R / T)); the last R mod T requests are performed by no worker; no
\* slot is written by two workers.
C9_DisjointPartition ==
    /\ mpc = "start" =>
        \A T \in 1 .. PartThreads : \A R \in 0 .. PartRequests :
            /\ \A t1, t2 \in 0 .. (T - 1) :
                    t1 # t2 => SlotsOf(t1, R, T) \cap SlotsOf(t2, R, T) = {}
            /\ UNION {SlotsOf(t, R, T) : t \in 0 .. (T - 1)} = 0 .. (T * (R \div T) - 1)
            /\ T * (R \div T) = R - (R % T)
    /\ variant = "mt" =>
        /\ \A w \in BagToSet(latencies) :
              /\ w[1] \in SlotsOf(w[2], total_requests, num_threads)
              /\ w[1] < total_requests - (total_requests % num_threads)
        /\ \A w1, w2 \in BagToSet(latencies) : w1[1] = w2[1] => w1[2] = w2[2]
        /\ \A c \in ClientConns : cli[c].roundsOK <= total_requests \div num_threads

\* two workers have written their slots and one request is left over
C9_Witness ==
    /\ variant = "mt" /\ num_threads = 2 /\ total_requests = 3
    /\ BagToSet(latencies) = {<<0, 0>>, <<1, 1>>}
    /\ mpc = "exited" /\ cstatus = 0

\* C10: every worker thread main has created is joined before main returns,
\* and main reads the latency array only after all workers have terminated.
C10_JoinBeforeReturn ==
    variant = "mt" =>
        /\ mpc = "exited" => created \subseteq joined
        /\ aggregated => \A t \in 0 .. (num_threads - 1) : t \in joined /\ terminated(t)

\* the workers that may still read the payload buffer
Running(t) == cli[t].pc \in {"loop", "send", "ack"}

\* C11: failure isolation.  A step in which one worker of the multi-threaded
\* client ends on a failed send or a failed acknowledgment changes nothing of
\* the other workers: their sockets, positions and counts stay as they are,
\* no latency slot is written, and the payload buffer stays allocated while
\* another worker still runs.
C11_FailureIsolation ==
    [][\A t \in ClientConns :
          (/\ variant = "mt"
           /\ cli[t].pc \in {"send", "ack"}
           /\ cli'[t].pc = "failed" /\ cli'[t].sock = "closed")
          => /\ \A u \in ClientConns \ {t} : cli'[u] = cli[u]
             /\ latencies' = latencies
             /\ (\E u \in ClientConns \ {t} : Running(u)) => bufState' = "alloc"]_vars

\* C12: the payload buffer of the multi-threaded client is freed at most
\* once, never while a worker may still read it, and exactly once by the time
\* main has returned from a completed run.
C12_BufferLifecycle ==
    variant = "mt" =>
        /\ bufFrees <= 1
        /\ (\E u \in ClientConns : Running(u)) => bufState # "freed"
        /\ (mpc = "exited" /\ aggregated) => (bufFrees = 1 /\ bufState = "freed")

\* C13: every connection socket that was created is closed exactly once by
\* the time its owner has ended, and is never closed twice: the accepted
\* socket of the server, the socket of the single-threaded client and the
\* socket of each worker.
C13_SocketClosedOnce ==
    /\ \A c \in Conns :
          /\ srv[c].closes <= 1
          /\ (srv[c].pc = "exited" /\ srv[c].sock # "none")
             => (srv[c].sock = "closed" /\ srv[c].closes = 1)
    /\ \A c \in ClientConns :
          /\ cli[c].closes <= 1
          /\ ((mpc = "exited" \/ terminated(c)) /\ cli[c].sock # "none")
             => (cli[c].sock = "closed" /\ cli[c].closes = 1)

\* the lines of a file other than the header row
Rows(file) == {k \in 1 .. Len(file) : file[k] # CSV_HEADER}

\* a run is completed: main returns 0 after the report
RunCompletes == mpc = "report" /\ mpc' = "exited" /\ cstatus' = 0

\* C14: over the runs of the multi-threaded client that append to one output
\* file, starting from an empty file, the header row is the first line of the
\* file and no other line; no line already in the file is changed; a run that
\* completes appends exactly one line after the lines that were there, and no
\* other step writes to the file.
C14_CsvAcrossRuns ==
    /\ [](csvFile # <<>> => (csvFile[1] = CSV_HEADER /\ 1 \notin Rows(csvFile)
                             /\ Rows(csvFile) = 2 .. Len(csvFile)))
    /\ [][/\ Len(csvFile') >= Len(csvFile)
          /\ SubSeq(csvFile', 1, Len(csvFile)) = csvFile
          /\ IF RunCompletes
             THEN Cardinality(Rows(csvFile')) = Cardinality(Rows(csvFile)) + 1
             ELSE csvFile' = csvFile]_vars

\* the second completed run on the file has ended: the file holds the header
\* row and one line of each run
C14_Witness ==
    /\ variant = "mt" /\ mpc = "exited" /\ cstatus = 0 /\ aggregated
    /\ Len(csvFile) = 3 /\ csvFile[1] = CSV_HEADER

\* what the server keeps of a unit: the declared length, the round, the bytes
\* counted and the acknowledgments sent
Unit(s) == [fs |-> s.file_size, i |-> s.i, total |-> s.total_bytes_received,
            acks |-> s.acksSent]

\* the unit after n more payload bytes were delivered in one piece
Delivered(u, n) ==
    IF u.total + n < u.fs THEN [u EXCEPT !.total = @ + n]
    ELSE IF u.total + n = u.fs THEN [u EXCEPT !.i = @ + 1, !.total = 0, !.acks = @ + 1]
    ELSE [u EXCEPT !.i = @ + 1, !.total = 0]

\* the unit after the pieces of a sequence were delivered one after the other
RECURSIVE DeliveredAll(_, _)
DeliveredAll(u, pieces) ==
    IF pieces = <<>> THEN u
    ELSE DeliveredAll(Delivered(u, Head(pieces)), Tail(pieces))

\* the chunks send_file cuts the rest of a round into
RECURSIVE Chunks(_, _)
Chunks(fs, sent) ==
    IF sent >= fs THEN <<>>
    ELSE <<bytes_to_send(fs, sent)>> \o Chunks(fs, sent + bytes_to_send(fs, sent))

\* the pieces of L bytes cut at the positions of a set
RECURSIVE Pieces(_, _, _)
Pieces(from, cuts, L) ==
    IF cuts = {} THEN <<L - from>>
    ELSE LET m == CHOOSE k \in cuts : \A j \in cuts : k <= j
         IN <<m - from>> \o Pieces(m, cuts \ {m}, L)

\* positions at which a round is cut, and lengths of a round
CutPoints == {1, 904, 4095, 4096, 5000}
UnitLengths == {1024, 4096, 5000, 8193}

\* C15: chunking invariance.  For a length L the server ends in the same
\* state, with the same one acknowledgment, whether the L bytes of a round
\* reach it as the chunks of min(4096, remaining) bytes, as one piece, or cut
\* at any other positions; and every read of the server that finds only bytes
\* of the current unit in the stream does to the unit what the delivery of
\* that many bytes does, whatever their number.
C15_ChunkingInvariance ==
    /\ [](mpc = "start" =>
            \A L \in UnitLengths : \A i \in {0, 3} :
                LET u == [fs |-> L, i |-> i, total |-> 0, acks |-> i]
                    whole == [fs |-> L, i |-> i + 1, total |-> 0, acks |-> i + 1]
                IN /\ Delivered(u, L) = whole
                   /\ DeliveredAll(u, Chunks(L, 0)) = whole
                   /\ \A cuts \in SUBSET {k \in CutPoints : k < L} :
                         DeliveredAll(u, Pieces(0, cuts, L)) = whole)
    /\ [][\A c \in Conns :
            LET n == srv'[c].payloadRead - srv[c].payloadRead
                s == srv[c]
                t == srv'[c]
            IN (/\ s.pc = "recv" /\ n > 0
                /\ s.total_bytes_received + chan[c].pay <= s.file_size)
               => /\ t.file_size = s.file_size
                  /\ chan'[c].s2c = IF t.acksSent > s.acksSent /\ ~PeerClosedC(c)
                                    THEN chan[c].s2c \o htonl(ACK_NUMBER) ELSE chan[c].s2c
                  /\ IF t.pc = "recv"
                     THEN Unit(t) = Delivered(Unit(s), n) /\ t.buf = s.buf
                     ELSE /\ s.total_bytes_received + n = s.file_size
                          /\ t.total_bytes_received = s.file_size
                          /\ \/ t.ret = 0 /\ t.i = SERVER_ROUNDS /\ t.acksSent = s.acksSent + 1
                             \/ t.ret = -1 /\ t.i = s.i /\ t.acksSent = s.acksSent]_vars

\* two units of 5000 bytes, sent as chunks of 4096 and 904 bytes, were
\* acknowledged in a run in which a call transferred fewer bytes than it could
C15_Witness ==
    /\ variant = "mt" /\ file_size = 5000 /\ partials > 0
    /\ srv[0].hdrWhole /\ srv[0].pc = "recv"
    /\ srv[0].i = 2 /\ srv[0].total_bytes_received = 0 /\ srv[0].acksSent = 2

\* C16: the send loop of send_file in the multi-threaded client.  Every send
\* call transfers at most 4096 bytes and at most the bytes still unsent, and
\* the count advances by what the call transferred, so the next call goes on
\* at the first unsent byte; the acknowledgment is awaited exactly when
\* total_bytes_sent has reached file_size; a negative result of send ends the
\* round in failure with the socket closed and no acknowledgment read.
C16_SendLoop ==
    /\ [](variant = "mt" =>
            \A t \in ClientConns :
                /\ cli[t].total_bytes_sent <= file_size
                /\ cli[t].pc = "send" => cli[t].total_bytes_sent < file_size
                /\ cli[t].pc = "ack" => cli[t].total_bytes_sent = file_size)
    /\ [][variant = "mt" =>
            \A t \in ClientConns :
                cli[t].pc = "send" /\ cli'[t] # cli[t]
                => LET n == cli'[t].total_bytes_sent - cli[t].total_bytes_sent
                       unsent == file_size - cli[t].total_bytes_sent
                   IN IF cli'[t].pc \in {"send", "ack"}
                      THEN /\ 0 < n /\ n <= PAGE_SIZE /\ n <= unsent
                           /\ chan'[t].pay \in {chan[t].pay, chan[t].pay + n}
                           /\ chan'[t].s2c = chan[t].s2c
                           /\ cli'[t].pc = "ack" <=> n = unsent
                           /\ cli'[t].sock = cli[t].sock /\ cli'[t].i = cli[t].i
                      ELSE /\ cli'[t].pc \in {"failed", "killed"}
                           /\ cli'[t].pc = "failed" =>
                                /\ cli'[t].sock = "closed"
                                /\ cli'[t].closes = cli[t].closes + 1
                                /\ cli'[t].roundsOK = cli[t].roundsOK
                                /\ chan'[t].s2c = chan[t].s2c]_vars

\* a send of a round of 5000 bytes transferred 4095 of the 4096 bytes it was
\* given, and the loop goes on at byte 4095
C16_Witness ==
    /\ variant = "mt" /\ file_size = 5000
    /\ cli[0].pc = "send" /\ cli[0].total_bytes_sent = PAGE_SIZE - 1
    /\ srv[0].payloadRead + chan[0].pay = PAGE_SIZE - 1

\* the client has started the rounds of connection c
RoundsStarted(c) ==
    \/ cli[c].pc \in {"send", "ack", "done"}
    \/ cli[c].roundsOK > 0 \/ cli[c].total_bytes_sent > 0
    \/ chan[c].pay + srv[c].payloadRead > 0

\* C17: header ordering.  On every connection the client makes the header
\* send once, before the first payload byte, and never again; the server
\* makes the header read once, before the first payload read, and the
\* file_size it holds after that read stays the same in every round.
C17_HeaderOrdering ==
    /\ [](\A c \in ClientConns :
            /\ cli[c].hdrSends <= 1
            /\ RoundsStarted(c) => cli[c].hdrSends = 1
            /\ chan[c].hdr <= HEADER_BYTES)
    /\ [](\A c \in Conns :
            (srv[c].payloadRead > 0 \/ srv[c].acksSent > 0 \/ srv[c].i > 0)
            => (srv[c].pc \in {"recv", "exited"} /\ srv[c].hdrRead > 0))
    /\ [][\A c \in Conns :
            /\ (c \in ClientConns /\ cli'[c].hdrSends # cli[c].hdrSends)
               => (cli[c].hdrSends = 0 /\ ~RoundsStarted(c))
            /\ srv[c].pc \in {"recv", "exited"}
               => /\ srv'[c].pc \in {"recv", "exited"}
                  /\ srv'[c].file_size = srv[c].file_size
                  /\ srv'[c].hdrRead = srv[c].hdrRead]_vars

\* three rounds of 1024 bytes on one connection after one header: the server
\* is in its fourth round with the file_size of the header
C17_Witness ==
    /\ variant = "st" /\ file_size = 1024
    /\ cli[0].hdrSends = 1 /\ cli[0].roundsOK = 3
    /\ srv[0].i = 3 /\ srv[0].acksSent = 3 /\ srv[0].file_size = 1024

\* C18: server header framing.  When the header read has failed, returned 0
\* or returned fewer than sizeof(file_size) bytes, the server has ended with a
\* failure: the transfer phase was not entered, no payload byte was read and
\* no acknowledgment was sent.
C18_HeaderFraming ==
    \A c \in Conns :
        (srv[c].sock # "none" /\ srv[c].pc \in {"recv", "exited"}
         /\ srv[c].hdrRead # HEADER_BYTES)
        => /\ srv[c].pc = "exited" /\ srv[c].ret = -1
           /\ "Received file size" \notin Range(srv[c].log)
           /\ srv[c].buf = "none"
           /\ srv[c].payloadRead = 0 /\ srv[c].acksSent = 0

\* the times a message occurs in a log
Occurrences(log, msg) == Cardinality({k \in 1 .. Len(log) : log[k] = msg})

\* C19: end-to-end trace.  In a run without failed or short calls, a worker
\* of the multi-threaded client starts round k + 1 only after the server has
\* sent the acknowledgment of round k, and when it has performed its N rounds,
\* 1 <= N <= 10, and closed, the server has reported the file size once, has
\* read N units of file_size payload bytes and has sent exactly N
\* acknowledgments, all of which the client has read.
C19_EndToEndTrace ==
    (variant = "mt" /\ faults + partials = 0) =>
        \A c \in ClientConns :
            /\ cli[c].pc \in {"send", "ack"} => srv[c].acksSent >= cli[c].i
            /\ (/\ cli[c].pc = "done"
                /\ 1 <= requests_per_thread /\ requests_per_thread <= SERVER_ROUNDS
                /\ cli[c].roundsOK = requests_per_thread)
               => /\ Occurrences(srv[c].log, "Received file size") = 1
                  /\ srv[c].acksSent = requests_per_thread
                  /\ srv[c].payloadRead = requests_per_thread * file_size
                  /\ srv[c].ackAt = [k \in 1 .. requests_per_thread |-> k * file_size]
                  /\ chan[c].s2c = <<>> /\ chan[c].pay = 0

\* C20: abort of the single-threaded client.  After a failed connect no
\* header is sent on the connection; and once the process has ended without
\* completing its rounds it has ended with a nonzero status and without
\* printing statistics.
C20_ClientAbort ==
    variant = "st" =>
        /\ (cli[0].sock # "none" /\ ~cli[0].connOK)
           => (cli[0].hdrSends = 0 /\ cli[0].pc = "idle")
        /\ (mpc = "exited" /\ cli[0].pc # "done") => (cstatus # 0 /\ ~aggregated)

\* C21: partial writes in the single-threaded client.  When the client waits
\* for the acknowledgment of a round, all file_size bytes of the round were
\* put on the connection, also after a send that transferred fewer bytes than
\* it was given; so the client never waits for an acknowledgment while the
\* server waits for payload bytes that are not in flight.
C21_PartialWrites ==
    (/\ variant = "st" /\ faults = 0
     /\ cli[0].pc = "ack" /\ cli[0].sock = "open"
     /\ srv[0].pc = "recv" /\ srv[0].hdrWhole /\ srv[0].file_size = file_size)
    => /\ srv[0].payloadRead + chan[0].pay >= (cli[0].i + 1) * file_size
       /\ ~(/\ srv[0].total_bytes_received < srv[0].file_size
            /\ chan[0].pay = 0 /\ chan[0].s2c = <<>>)

\* C22: latency array bounds.  For all T >= 1 and R >= 0, T * (R / T) is at
\* most R, the length of the latency array, and every index
\* thread_index * requests_per_thread + i a worker writes lies in [0, R).
C22_LatencyBounds ==
    /\ mpc = "start" =>
        \A T \in 1 .. PartThreads : \A R \in 0 .. PartRequests :
            /\ T * per_thread(R, T) <= R
            /\ \A t \in 0 .. (T - 1) : \A i \in 0 .. (per_thread(R, T) - 1) :
                  /\ 0 <= start_index(t, per_thread(R, T)) + i
                  /\ start_index(t, per_thread(R, T)) + i < R
    /\ variant = "mt" =>
        /\ num_threads * requests_per_thread <= total_requests
        /\ \A w \in BagToSet(latencies) : 0 <= w[1] /\ w[1] < total_requests

\* one worker has written every slot of an array of three, the last included
C22_Witness ==
    /\ variant = "mt" /\ num_threads = 1 /\ total_requests = 3
    /\ BagToSet(latencies) = {<<0, 0>>, <<1, 0>>, <<2, 0>>}

\* the latency slots worker t has written
Written(t) == {w[1] : w \in {v \in BagToSet(latencies) : v[2] = t}}

\* C23: sample recording order.  A worker writes slot
\* thread_index * requests_per_thread + i once, in the step in which the
\* acknowledgment of round i is validated, so its slots are those of the
\* rounds it has completed; a worker that has failed in round i has written
\* no slot of round i or of a later round, and does nothing more on its
\* connection.
C23_SampleRecordingOrder ==
    /\ [](variant = "mt" =>
            /\ \A w \in BagToSet(latencies) : CopiesIn(w, latencies) = 1
            /\ \A t \in ClientConns :
                  /\ Written(t) = {t * requests_per_thread + k : k \in 0 .. (cli[t].i - 1)}
                  /\ cli[t].roundsOK = cli[t].i
                  /\ cli[t].i <= requests_per_thread)
    /\ [][variant = "mt" =>
            /\ latencies' # latencies =>
                 \E t \in ClientConns :
                    /\ cli[t].pc = "ack" /\ cli'[t].pc = "loop"
                    /\ cli[t].total_bytes_sent = file_size
                    /\ cli'[t].i = cli[t].i + 1
                    /\ latencies' = latencies (+) SetToBag({<<t * requests_per_thread + cli[t].i, t>>})
            /\ \A t \in ClientConns :
                 cli[t].pc = "failed"
                 => /\ cli'[t] = cli[t]
                    /\ chan'[t].hdr + chan'[t].pay <= chan[t].hdr + chan[t].pay
                    /\ Len(chan'[t].s2c) >= Len(chan[t].s2c)]_vars

\* a worker with two rounds to do has failed in its second round: only the
\* slot of the first round is written
C23_Witness ==
    /\ variant = "mt" /\ num_threads = 1 /\ total_requests >= 2
    /\ cli[0].pc = "failed" /\ cli[0].i = 1
    /\ BagToSet(latencies) = {<<0, 0>>}

\* C24: worker progress.  In a run of the multi-threaded client in which no
\* call fails (reads and writes may be short), no worker waits for an
\* acknowledgment while its server waits for payload bytes with no byte in
\* flight in either direction.
C24_WorkerProgress ==
    (variant = "mt" /\ faults = 0 /\ requests_per_thread <= SERVER_ROUNDS) =>
        \A t \in ClientConns :
            ~(/\ cli[t].pc = "ack" /\ cli[t].sock = "open" /\ mpc # "exited"
              /\ srv[t].pc = "recv"
              /\ srv[t].total_bytes_received < srv[t].file_size
              /\ chan[t].hdr = 0 /\ chan[t].pay = 0 /\ chan[t].s2c = <<>>)

\* what the owner of a connection does to it: the descriptor, the socket and
\* the header send
SocketOps(e) == <<e.connOK, e.connRet, e.sock, e.closes, e.hdrSends>>

\* C25: connection ownership.  In the multi-threaded client main connects
\* worker t's socket and sends the header on it before it creates the thread,
\* and does nothing on the socket afterwards; a worker runs only after it was
\* created, and from then on its socket and its position change only in its
\* own steps, one worker at a time.
C25_ConnectionOwnership ==
    /\ [](variant = "mt" =>
            \A t \in ClientConns :
                /\ cli[t].pc \in {"loop", "send", "ack", "done", "failed", "killed"}
                   <=> t \in created
                /\ t \in created => (cli[t].hdrSends = 1 /\ cli[t].connRet # 0)
                /\ (t \notin created /\ cli[t].sock # "none") => (t = mi \/ mpc = "exited"))
    /\ [][variant = "mt" =>
            \A t \in created :
                /\ cli'[t].hdrSends = cli[t].hdrSends
                /\ cli'[t].connRet = cli[t].connRet /\ cli'[t].connOK = cli[t].connOK
                /\ (mpc' # mpc \/ mi' # mi)
                   => /\ SocketOps(cli'[t]) = SocketOps(cli[t])
                      /\ chan'[t] = chan[t]
                      /\ cli'[t] # cli[t] => (mpc' = "exited" /\ cli'[t].pc = "killed")
                /\ SocketOps(cli'[t]) # SocketOps(cli[t])
                   => /\ cli[t].pc \in {"loop", "send", "ack"}
                      /\ \A u \in ClientConns \ {t} : cli'[u] = cli[u] /\ chan'[u] = chan[u]]_vars

\* both workers were created; the first has closed its socket while the
\* second is in a round and main waits in its joins
C25_Witness ==
    /\ variant = "mt" /\ created = {0, 1} /\ mpc = "join"
    /\ cli[0].pc = "done" /\ cli[0].sock = "closed"
    /\ cli[1].pc = "ack" /\ cli[1].sock = "open"

\* messages of listen_to_client after which the listening socket exists
ListenFailures == {"Error in setsockopt", "Error binding",
                   "Error listening for connections", "Error in accepting"}

\* C26: the listening socket.  The server accepts at most one connection;
\* once listen_to_client has returned, a listening socket that was created
\* has been closed exactly once, after the accept or after the failed
\* setsockopt, bind, listen or accept; after each of these failures main
\* returns -1 without calling receive_file, so the transfer phase is entered
\* only with an accepted connection.
C26_ListeningSocket ==
    /\ [](\A c \in Conns :
            /\ srv[c].lCloses <= 1
            /\ srv[c].lsock = "none" => srv[c].lCloses = 0
            /\ (srv[c].pc \in {"hdr", "recv", "exited"} /\ srv[c].lsock # "none")
               => (srv[c].lsock = "closed" /\ srv[c].lCloses = 1)
            /\ Range(srv[c].log) \cap ListenFailures # {}
               => (srv[c].lsock = "closed" /\ srv[c].lCloses = 1 /\ srv[c].pc = "exited")
            /\ Occurrences(srv[c].log, "Connected to client") <= 1
            /\ (\/ srv[c].pc \in {"hdr", "recv"} \/ srv[c].ret # 1
                \/ srv[c].hdrRead # 0 \/ srv[c].payloadRead > 0 \/ srv[c].buf # "none")
               => (srv[c].sock # "none" /\ "Connected to client" \in Range(srv[c].log))
            /\ (srv[c].pc = "exited" /\ srv[c].sock = "none")
               => /\ srv[c].status = EXIT_MINUS_ONE
                  /\ "Error listening to client" \in Range(srv[c].log)
                  /\ srv[c].ret = 1 /\ srv[c].acksSent = 0)
    /\ [][\A c \in Conns :
            /\ srv[c].lsock = "closed" => srv'[c].lsock = "closed"
            /\ srv[c].sock # "none" => (srv'[c].sock # "none" /\ srv'[c].pc # "accept")]_vars

\* accept has failed: the listening socket was closed once and the server
\* has ended without a connection
C26_Witness ==
    \E c \in Conns :
        /\ srv[c].pc = "exited" /\ srv[c].sock = "none"
        /\ "Error in accepting" \in Range(srv[c].log)
        /\ srv[c].lsock = "closed" /\ srv[c].lCloses = 1

\* C27: CSV row content.  For every value of the metric selector the line a
\* run of the multi-threaded client appends to the output file is the row of
\* 13 fields that matches the columns of the header row.
C27_CsvRowContent ==
    \A k \in 1 .. Len(csvFile) : csvFile[k] \in {CSV_HEADER, csv_line(1)}

\* C28: the stop-and-wait bound on the server counter.  On a connection of a
\* client of the repository whose header was read whole, the payload bytes
\* read for a unit and those still in flight never exceed file_size, since no
\* byte of round k + 1 is sent before the acknowledgment of round k was
\* received; so the bytes counted for a unit never exceed file_size and the
\* mismatch message is never printed.
C28_StopAndWaitBound ==
    \A c \in ClientConns :
        (srv[c].hdrWhole /\ srv[c].file_size = file_size)
        => /\ srv[c].pc = "recv" =>
                srv[c].total_bytes_received + chan[c].pay <= srv[c].file_size
           /\ srv[c].total_bytes_received <= srv[c].file_size
           /\ "Mismatch in the file size received and expected" \notin Range(srv[c].log)

\* C29: the server round bound.  On one connection the server sends at most
\* 10 acknowledgments; when the k-th acknowledgment is sent at least
\* k * file_size payload bytes have been read on the connection; after the
\* 10th round the server has returned success, reads nothing more and sends
\* nothing more, whatever number of rounds the client goes on to.
C29_ServerRoundBound ==
    /\ [](\A c \in Conns :
            /\ srv[c].acksSent <= SERVER_ROUNDS /\ srv[c].i <= SERVER_ROUNDS
            /\ Len(srv[c].ackAt) = srv[c].acksSent
            /\ \A k \in 1 .. Len(srv[c].ackAt) :
                  /\ srv[c].ackAt[k] >= k * srv[c].file_size
                  /\ srv[c].ackAt[k] <= srv[c].payloadRead
            /\ srv[c].acksSent = SERVER_ROUNDS
               => /\ srv[c].pc = "exited" /\ srv[c].ret = 0 /\ srv[c].status = 0
                  /\ srv[c].payloadRead = srv[c].ackAt[SERVER_ROUNDS]
            /\ srv[c].i = SERVER_ROUNDS => srv[c].pc = "exited")
    /\ [][\A c \in Conns :
            srv[c].i = SERVER_ROUNDS
            => (srv'[c] = srv[c] /\ Len(chan'[c].s2c) <= Len(chan[c].s2c))]_vars

\* the single-threaded client is in its 11th round: its bytes are in flight
\* to a server that has ended after 10 acknowledgments
C29_Witness ==
    /\ variant = "st" /\ cli[0].i = SERVER_ROUNDS /\ cli[0].pc = "ack"
    /\ srv[0].acksSent = SERVER_ROUNDS /\ srv[0].pc = "exited" /\ srv[0].ret = 0

\* C30: the client-side range check.  A client whose payload size is below 8
\* or above 1048576 makes no header send and no payload send on any
\* connection, creates no worker thread, and once it has ended it has closed
\* the one socket it had opened and has returned failure.
C30_ClientRangeCheck ==
    (variant \in {"st", "mt"} /\ (file_size < CLIENT_MIN_FILE_SIZE \/ file_size > CLIENT_MAX_FILE_SIZE))
    => /\ created = {}
       /\ \A c \in ClientConns :
             /\ cli[c].hdrSends = 0
             /\ chan[c].hdr = 0 /\ chan[c].pay = 0 /\ srv[c].payloadRead = 0
             /\ cli[c].pc = "idle"
             /\ c > 0 => cli[c].sock = "none"
       /\ mpc \in {"start", "connect", "exited"}
       /\ mpc = "exited"
          => /\ cstatus # 0
             /\ ~aggregated
             /\ cli[0].sock # "none" => (cli[0].sock = "closed" /\ cli[0].closes = 1)

\* a client started with 1048577 bytes has ended after its connect
C30_Witness ==
    /\ variant \in {"st", "mt"} /\ file_size = CLIENT_MAX_FILE_SIZE + 1
    /\ mpc = "exited" /\ cli[0].connOK /\ cli[0].sock = "closed"

\* the slots of the latency array that have been written
WrittenSlots == {w[1] : w \in BagToSet(latencies)}

\* the samples handed to the statistics after a run: the slots written are
\* those of T * (R / T) requests, each once; all R slots are summed and
\* counted, the never written last R mod T among them; the line shows R
SamplesHanded ==
    /\ WrittenSlots = 0 .. (num_threads * requests_per_thread - 1)
    /\ \A w \in BagToSet(latencies) : CopiesIn(w, latencies) = 1
    /\ \A w1, w2 \in BagToSet(latencies) : w1[1] = w2[1] => w1 = w2
    /\ stats.summed = 0 .. (total_requests - 1)
    /\ stats.count = total_requests
    /\ (num_threads * requests_per_thread) .. (total_requests - 1) \subseteq stats.summed \ WrittenSlots
    /\ stats.requests = {total_requests}

\* C31: samples handed to the statistics.  After a run of the multi-threaded
\* client with T threads and R requests in which no call failed or was short
\* and main has written its line, exactly T * (R / T) slots of the latency
\* array have been written, each once; the last R mod T slots, never written,
\* are among the R samples summed and handed to GetStatistics, and the line
\* reports R as the request count.
C31_SamplesHanded ==
    (/\ variant = "mt" /\ faults + partials = 0
     /\ mpc = "exited" /\ cstatus = 0 /\ aggregated)
    => SamplesHanded

\* a timespec as clock_gettime fills it in
Normalised(ts) == 0 <= ts.tv_nsec /\ ts.tv_nsec < BILLION

\* timespec a is not later than timespec b
NotLater(a, b) == a.tv_sec < b.tv_sec \/ (a.tv_sec = b.tv_sec /\ a.tv_nsec <= b.tv_nsec)

\* the nanoseconds from the epoch to a timespec
Nanoseconds(ts) == ts.tv_sec * BILLION + ts.tv_nsec

\* C32: latency arithmetic.  When a round has been recorded with normalised
\* timestamps and stop not earlier than start, the latency stored is the
\* nanoseconds from start to stop divided by 1000 and is not negative, also
\* when stop.tv_nsec < start.tv_nsec.
C32_LatencyArithmetic ==
    \A c \in ClientConns :
        (/\ cli[c].pc = "loop" /\ cli[c].roundsOK > 0
         /\ Normalised(cli[c].start) /\ Normalised(cli[c].stop)
         /\ NotLater(cli[c].start, cli[c].stop))
        => /\ cli[c].latency.den = 1000
           /\ cli[c].latency.num = Nanoseconds(cli[c].stop) - Nanoseconds(cli[c].start)
           /\ cli[c].latency.num >= 0

\* a round of a worker that started in the last nanosecond of a second and
\* stopped in the next second has been recorded: the latency is 1.501
\* microseconds
C32_Witness ==
    /\ variant = "mt" /\ cli[0].pc = "loop" /\ cli[0].roundsOK > 0
    /\ cli[0].stop.tv_nsec < cli[0].start.tv_nsec
    /\ cli[0].stop.tv_sec > cli[0].start.tv_sec
    /\ cli[0].latency = [num |-> 1501, den |-> 1000]

====
